---- MODULE Spec2Model ----
(***************************************************************************)
(* Model of the mask cache and page script of the WebGPU face-landmark     *)
(* demo.                                                                   *)
(*                                                                         *)
(* The repository holds two drafts of class MaskManager:                   *)
(*   variant = "mm"  : face_landmark/webgpu/js/mask-manager.js, the module *)
(*                     app.js imports.  A JavaScript class body that       *)
(*                     defines a method twice keeps the LAST definition,   *)
(*                     so addMask is lines 165-219, createBindGroup is     *)
(*                     221-249, cleanupOldMasks is 390-397.                *)
(*   variant = "app" : the copy pasted at app.js 1852-2104.                *)
(* and two kinds of TextureLoader (unnamed/part_002):                      *)
(*   loader = "cached" : lines 2-76, textures cached by URL;               *)
(*   loader = "plain"  : lines 78-373 and 375-622, no cache, a failed      *)
(*                       fetch answers a fresh fallback texture, and there *)
(*                       is no loadImageFromFile method.                   *)
(* Both are fixed by Init and every claim is checked for all of them.      *)
(*                                                                         *)
(* Around the cache the module models the page script of app.js: the runs  *)
(* of loadDefaultMasks (variable chain), init() and recoveryVideo()        *)
(* (initRun, globals) and the requestAnimationFrame loops of               *)
(* enhancedRender (loops, frameCounter, lastTick).                         *)
(***************************************************************************)
EXTENDS Naturals, Sequences, FiniteSets

\* ---------------------------------------------------------------- bounds
\* ids are opaque Map keys (compared with === only); 1..NumIds
NumIds == 6
\* distinct URLs handed to addMask
NumUrls == 1
\* estimateFaces calls in one run
MaxEstimates == 2
\* addMask calls that store a mask in one run
MaxAdds == 6
\* masks added while the detector is in the loop
MaxMemoMasks == 2
\* entries of the default-mask list
NumDefaultMasks == 2
\* visibility-resume events in one run of the page
MaxRecoveries == 1
\* file drops on the canvas
MaxDrops == 1
\* distinct positions the detector reports for a landmark
NumPoses == 2
\* landmarks of a mesh
MaxVertices == 2
\* largest coordinate of a landmark
MaxCoord == 1
\* direct calls of loadImage
MaxLoads == 3

\* ---------------------------------------------------------------- constants
\* this.maxMasks = 5
maxMasks == 5
\* guiProperties.predictionsPerSecond: 30
predictionsPerSecond == 30
\* const MAX_RETRIES = 3 (loadDefaultMasks)
MAX_RETRIES == 3
\* the range of the slider: add(guiProperties, 'predictionsPerSecond', 15, 60)
MinPredictionsPerSecond == 15
MaxPredictionsPerSecond == 60

Ids == 1..NumIds
\* a landmark coordinate, in units of the last place kept
Poses == 1..NumPoses
\* window.lastPrediction is undefined
NoPose == 0
Urls == 1..NumUrls
\* null / undefined
NoId == 0
\* a File object handed to addMask (handleDrop)
File == 0
Sources == Urls \cup {File}
\* a texture made for one mask object only (not held by textureCache)
OwnTex == 0

VARIABLES
    variant,          \* which draft of MaskManager
    loader,           \* which draft of TextureLoader
    masks,            \* this.masks : Map, as the sequence of its values in key order
    maskQueue,        \* this.maskQueue
    activeMaskId,     \* this.activeMaskId
    bindGroupLayout,  \* this.bindGroupLayout is non-null
    textureCache,     \* TextureLoader.textureCache : the urls it holds a texture for
    destroyedTex,     \* cached textures (named by url) on which destroy() was called
    pending,          \* id -> setActiveMask calls on the mask stored there that await estimateFaces
    estimateCalls,    \* id -> model.estimateFaces calls made for the mask stored there
    added,            \* number of addMask calls that stored a mask
    lastOp,           \* the last call, what it answered and what it did
    chain,            \* the run of loadDefaultMasks
    appDraft,         \* which draft of the page script (app.js 1-697 or 698-1567)
    initRun,          \* the latest call of init()
    globals,          \* the script's globals renderer, faceMeshModel, videoStream, maskManager
    loops,            \* the requestAnimationFrame chains: each one's current tick
    frameCounter,     \* frameCounter, as the residue the cadence test reads
    lastTick,         \* what the last step of a tick did
    page,             \* the document: unloaded, the handleDrop call in flight
    frame             \* the latest vertex buffer built and drawn by the renderer

\* the state of the page script around loadDefaultMasks
runVars == <<appDraft, initRun, globals, loops, frameCounter, lastTick, page, frame>>

\* the state outside the mask cache and the texture loader
appVars ==
    <<chain, appDraft, initRun, globals, loops, frameCounter, lastTick, page, frame>>

vars == <<variant, loader, masks, maskQueue, activeMaskId, bindGroupLayout,
          textureCache, destroyedTex, pending, estimateCalls, added, lastOp,
          chain, appDraft, initRun, globals, loops, frameCounter, lastTick, page,
          frame>>

\* ---------------------------------------------------------------- Map helpers
\* ids of the live entries, this.masks.keys()
MaskIds(m) == {m[i].id : i \in 1..Len(m)}

\* this.masks.has(id)
HasMask(m, id) == id \in MaskIds(m)

\* index of id in key order
IndexOfMask(m, id) == CHOOSE i \in 1..Len(m) : m[i].id = id

\* this.masks.get(id), for a live id
GetMask(m, id) == m[IndexOfMask(m, id)]

\* this.masks.set(id, mask): a present key keeps its position, a new key goes last
MapSet(m, mask) ==
    IF HasMask(m, mask.id)
    THEN [m EXCEPT ![IndexOfMask(m, mask.id)] = mask]
    ELSE Append(m, mask)

\* this.masks.delete(id)
MapDelete(m, id) == SelectSeq(m, LAMBDA e : e.id # id)

\* index of the first occurrence, this.maskQueue.indexOf(id); 0 stands for -1
IndexOf(q, id) ==
    IF \E i \in 1..Len(q) : q[i] = id
    THEN CHOOSE i \in 1..Len(q) : q[i] = id /\ \A j \in 1..(i-1) : q[j] # id
    ELSE 0

\* this.maskQueue.splice(i, 1)
Splice(q, i) == [k \in 1..(Len(q) - 1) |-> IF k < i THEN q[k] ELSE q[k + 1]]

\* the part of the object that removeMask and cleanupOldMasks act on;
\* destroyCalls counts the texture.destroy() calls of the running operation
CacheState == [masks |-> masks, maskQueue |-> maskQueue,
               activeMaskId |-> activeMaskId, destroyedTex |-> destroyedTex,
               destroyCalls |-> 0]

\* ---------------------------------------------------------------- removeMask
\* faulty removeMask for comparison: only the destroy() call is under "if (mask)"; the delete, the splice
\* and the active-pointer update run for an id that is not in the cache too
RemoveMaskOnUnguarded(s, id) ==
    IF variant = "mm" /\ HasMask(s.masks, id) THEN s
    ELSE LET q == IF IndexOf(s.maskQueue, id) # 0
                  THEN Splice(s.maskQueue, IndexOf(s.maskQueue, id))
                  ELSE s.maskQueue
             live == HasMask(s.masks, id)
         IN [masks |-> MapDelete(s.masks, id),
             maskQueue |-> q,
             activeMaskId |-> IF s.activeMaskId = id
                              THEN (IF Len(q) > 0 THEN q[1] ELSE NoId)
                              ELSE s.activeMaskId,
             destroyedTex |-> IF live
                              THEN s.destroyedTex \cup ({GetMask(s.masks, id).tex} \ {OwnTex})
                              ELSE s.destroyedTex,
             destroyCalls |-> IF live THEN s.destroyCalls + 1 ELSE s.destroyCalls]

\* removeMask(id).  In mask-manager.js the mask object is
\* {id, textureData, bindGroup, lastUsed}: mask.texture is undefined, so
\* mask.texture.texture raises a TypeError that the catch swallows before
\* anything is deleted.  In app.js the object has a texture field.
RemoveMaskOn(s, id) ==
    IF ~HasMask(s.masks, id) THEN s
    ELSE IF variant = "mm" THEN s
    ELSE LET q == IF IndexOf(s.maskQueue, id) # 0
                  THEN Splice(s.maskQueue, IndexOf(s.maskQueue, id))
                  ELSE s.maskQueue
             tex == GetMask(s.masks, id).tex
         IN [masks |-> MapDelete(s.masks, id),
             maskQueue |-> q,
             activeMaskId |-> IF s.activeMaskId = id
                              THEN (IF Len(q) > 0 THEN q[1] ELSE NoId)
                              ELSE s.activeMaskId,
             destroyedTex |-> s.destroyedTex \cup ({tex} \ {OwnTex}),
             destroyCalls |-> s.destroyCalls + 1]

\* cleanupOldMasks()
RECURSIVE CleanupOldMasks(_)
CleanupOldMasks(s) ==
    IF Len(s.maskQueue) <= maxMasks THEN s
    ELSE LET oldestMaskId == Head(s.maskQueue)
             shifted == [s EXCEPT !.maskQueue = Tail(s.maskQueue)]
         IN CleanupOldMasks(IF oldestMaskId # s.activeMaskId
                            THEN RemoveMaskOn(shifted, oldestMaskId)
                            ELSE shifted)

\* ---------------------------------------------------------------- inputs
\* ids the state mentions
ReferencedIds == MaskIds(masks) \cup {maskQueue[i] : i \in 1..Len(maskQueue)}
                    \cup ({activeMaskId} \ {NoId})

\* ids are compared for equality only, so every id the state does not mention
\* behaves alike: the least one stands for all of them
CandidateIds ==
    ReferencedIds \cup
      (IF Ids \ ReferencedIds = {} THEN {}
       ELSE {CHOOSE i \in Ids \ ReferencedIds : \A j \in Ids \ ReferencedIds : i <= j})

\* ---------------------------------------------------------------- TextureLoader
\* loadImage finds the url in textureCache
LoadHit(src) == loader = "cached" /\ src \in textureCache

\* the load answers a texture; loadOk: fetch and decode work
LoadSucceeds(src, loadOk) ==
    IF loader = "cached"
    THEN LoadHit(src) \/ loadOk
    ELSE src # File

\* the texture the load answers: the cached loader keeps one texture per url
LoadedTex(src) == IF loader = "cached" /\ src # File THEN src ELSE OwnTex

\* textureCache after the load
CacheAfterLoad(src) ==
    IF loader = "cached" /\ src # File THEN textureCache \cup {src} ELSE textureCache

\* ---------------------------------------------------------------- addMask
\* op: the method; known: its id named a live entry when it was called;
\* result: what the caller gets; touched: a mask's lastUsed was written;
\* destroyCalls: texture.destroy() calls made
Op(op, known, result, touched, destroyCalls) ==
    [op |-> op, known |-> known, result |-> result, touched |-> touched,
     destroyCalls |-> destroyCalls]

\* faulty addMask for comparison: every added mask becomes the active one
ActiveAfterAddAlways(active, id) == id

\* "Set as active if first mask": if (!this.activeMaskId) this.activeMaskId = id
ActiveAfterAdd(active, id) == IF active = NoId THEN id ELSE active

\* the per-object bookkeeping of ids whose object is gone or replaced
ForgetObjects(f, ids) == [i \in Ids |-> IF i \in ids THEN 0 ELSE f[i]]

\* addMask(id, imageUrlOrFile); bindOk: device.createBindGroup does not throw
AddMask(id, src, loadOk, bindOk) ==
    /\ UNCHANGED <<variant, loader, bindGroupLayout>>
    /\ IF ~LoadSucceeds(src, loadOk)
       THEN /\ lastOp' = Op("addMask", HasMask(masks, id), "LoadError", FALSE, 0)
            /\ UNCHANGED <<masks, maskQueue, activeMaskId, textureCache,
                           destroyedTex, added, pending, estimateCalls>>
       ELSE IF ~(bindGroupLayout /\ bindOk)
       THEN /\ textureCache' = CacheAfterLoad(src)
            \* only app.js destroys the texture it just loaded
            /\ destroyedTex' = IF variant = "app"
                               THEN destroyedTex \cup ({LoadedTex(src)} \ {OwnTex})
                               ELSE destroyedTex
            /\ lastOp' = Op("addMask", HasMask(masks, id), "BindError", FALSE,
                            IF variant = "app" THEN 1 ELSE 0)
            /\ UNCHANGED <<masks, maskQueue, activeMaskId, added, pending,
                           estimateCalls>>
       ELSE LET mask == [id |-> id, tex |-> LoadedTex(src), landmarks |-> FALSE]
                stored == [masks |-> MapSet(masks, mask),
                           maskQueue |-> Append(maskQueue, id),
                           activeMaskId |-> ActiveAfterAdd(activeMaskId, id),
                           destroyedTex |-> destroyedTex,
                           destroyCalls |-> 0]
                s == CleanupOldMasks(stored)
                gone == {id} \cup (MaskIds(stored.masks) \ MaskIds(s.masks))
            IN /\ masks' = s.masks
               /\ maskQueue' = s.maskQueue
               /\ activeMaskId' = s.activeMaskId
               /\ destroyedTex' = s.destroyedTex
               /\ textureCache' = CacheAfterLoad(src)
               /\ pending' = ForgetObjects(pending, gone)
               /\ estimateCalls' = ForgetObjects(estimateCalls, gone)
               /\ added < MaxAdds
               /\ added' = added + 1
               /\ lastOp' = Op("addMask", HasMask(masks, id), "ok", TRUE, s.destroyCalls)

\* ---------------------------------------------------------------- getActiveMask
\* activeMaskId after the self-healing step of mask-manager.js 152-155
HealedActiveId ==
    IF variant = "mm" /\ activeMaskId = NoId /\ Len(masks) > 0
    THEN masks[1].id
    ELSE activeMaskId

\* what getActiveMask() answers: the id of the mask object, NoId for null
GetActiveMaskResult ==
    IF HasMask(masks, HealedActiveId) THEN HealedActiveId ELSE NoId

\* getActiveMask()
GetActiveMask ==
    /\ activeMaskId' = HealedActiveId
    /\ lastOp' = Op("getActiveMask", FALSE,
                    IF GetActiveMaskResult = NoId THEN "null" ELSE "mask", FALSE, 0)
    /\ UNCHANGED <<variant, loader, masks, maskQueue, bindGroupLayout, textureCache,
                   destroyedTex, pending, estimateCalls, added>>
    /\ UNCHANGED appVars

\* ---------------------------------------------------------------- setActiveMask
\* estimateFaces calls made so far on the live mask objects
RECURSIVE SumOver(_, _)
SumOver(f, S) ==
    IF S = {} THEN 0
    ELSE LET x == CHOOSE y \in S : TRUE IN f[x] + SumOver(f, S \ {x})

\* setActiveMask(id) up to its await.  detectorReached: the canvas set-up and
\* createDetector of computeFaceLandmarks work, so estimateFaces is called.
SetActiveMask(id, detectorReached) ==
    IF ~HasMask(masks, id)
    THEN /\ lastOp' = Op("setActiveMask", FALSE, "NotFound", FALSE, 0)
         /\ UNCHANGED <<variant, loader, masks, maskQueue, activeMaskId,
                        bindGroupLayout, textureCache, destroyedTex, pending,
                        estimateCalls, added>>
    ELSE LET mask == GetMask(masks, id)
         IN /\ activeMaskId' = id
            /\ UNCHANGED <<variant, loader, masks, maskQueue, bindGroupLayout,
                           textureCache, destroyedTex, added>>
            /\ IF mask.landmarks
               THEN /\ lastOp' = Op("setActiveMask", TRUE, "ok", TRUE, 0)
                    /\ UNCHANGED <<pending, estimateCalls>>
               ELSE IF variant = "mm"
               \* mask.texture is undefined: computeFaceLandmarks rejects at 353-355
               THEN /\ lastOp' = Op("setActiveMask", TRUE, "Error", TRUE, 0)
                    /\ UNCHANGED <<pending, estimateCalls>>
               ELSE IF ~detectorReached
               \* the catch of computeFaceLandmarks answers null
               THEN /\ lastOp' = Op("setActiveMask", TRUE, "ok", TRUE, 0)
                    /\ UNCHANGED <<pending, estimateCalls>>
               ELSE /\ SumOver(estimateCalls, Ids) < MaxEstimates
                    /\ pending' = [pending EXCEPT ![id] = @ + 1]
                    /\ estimateCalls' = [estimateCalls EXCEPT ![id] = @ + 1]
                    /\ lastOp' = Op("setActiveMask", TRUE, "awaiting", TRUE, 0)

\* estimateFaces settles and setActiveMask resumes: mask.landmarks = keypoints
\* (found) or null (no face, or estimateFaces threw)
LandmarksReturn(id, found) ==
    /\ pending[id] > 0
    /\ pending' = [pending EXCEPT ![id] = @ - 1]
    /\ masks' = [masks EXCEPT ![IndexOfMask(masks, id)].landmarks = found]
    /\ lastOp' = Op("setActiveMask.resume", FALSE, "ok", FALSE, 0)
    /\ UNCHANGED <<variant, loader, maskQueue, activeMaskId, bindGroupLayout,
                   textureCache, destroyedTex, estimateCalls, added>>

\* ---------------------------------------------------------------- removeMask, destroy
\* removeMask(id): never throws, answers undefined
RemoveMask(id) ==
    LET s == RemoveMaskOn(CacheState, id)
        gone == MaskIds(masks) \ MaskIds(s.masks)
    IN /\ masks' = s.masks
       /\ maskQueue' = s.maskQueue
       /\ activeMaskId' = s.activeMaskId
       /\ destroyedTex' = s.destroyedTex
       /\ pending' = ForgetObjects(pending, gone)
       /\ estimateCalls' = ForgetObjects(estimateCalls, gone)
       /\ lastOp' = Op("removeMask", HasMask(masks, id), "undefined", FALSE, s.destroyCalls)
       /\ UNCHANGED <<variant, loader, bindGroupLayout, textureCache, added>>

\* destroy(): in mask-manager.js the loop raises the same TypeError as removeMask
\* on its first mask and the catch skips the clearing
Destroy ==
    /\ UNCHANGED <<variant, loader, textureCache, added>>
    /\ UNCHANGED appVars
    /\ IF variant = "mm" /\ Len(masks) > 0
       THEN /\ lastOp' = Op("destroy", FALSE, "undefined", FALSE, 0)
            /\ UNCHANGED <<masks, maskQueue, activeMaskId, bindGroupLayout,
                           destroyedTex, pending, estimateCalls>>
       ELSE /\ destroyedTex' = destroyedTex \cup
                                 ({masks[i].tex : i \in 1..Len(masks)} \ {OwnTex})
            /\ masks' = <<>>
            /\ maskQueue' = <<>>
            /\ activeMaskId' = NoId
            /\ bindGroupLayout' = FALSE
            /\ pending' = [i \in Ids |-> 0]
            /\ estimateCalls' = [i \in Ids |-> 0]
            /\ lastOp' = Op("destroy", FALSE, "undefined", FALSE, Len(masks))

\* ---------------------------------------------------------------- loadDefaultMasks
\* The default masks are loaded by one of two drafts:
\*   draft = "retry" : function loadDefaultMasks of app.js 545-596: every listed
\*                     path, up to MAX_RETRIES attempts each, RETRY_DELAY between
\*                     them, no fallback mask;
\*   draft = "first" : method MaskManager.loadDefaultMasks of mask-manager.js
\*                     253-306 (and the function of app.js 1347-1381): one
\*                     attempt per entry, stops at the first that loads, then a
\*                     generated "fallback" mask if none did.
DefaultMasks == 1..NumDefaultMasks

\* the id and the url of the k-th entry of the list
DefaultMaskId(k) == k
DefaultMaskUrl(k) == k

\* addMask('fallback', fallbackTexture): the id, and the data url of the canvas
FallbackId == NumDefaultMasks + 1
FallbackUrl == NumDefaultMasks + 1

\* pc      : "idle", "try" (before addMask on entry k), "added" (addMask came
\*           back with a mask), "delay" (in setTimeout), "fallback" (before the
\*           fallback addMask), "returned", "raised"
\* attempts: the local counter of the retry loop
\* calls   : entry -> addMask calls made for it
\* okSrc   : entries for which an addMask call stored a mask
\* waited  : RETRY_DELAY elapsed since the last failed attempt
\* hasty   : an attempt on the same entry followed a failed one without delay
\* again   : an entry was attempted after one of its attempts had succeeded
ChainIdle ==
    [draft |-> "none", pc |-> "idle", k |-> 0, attempts |-> 0, loadedAny |-> FALSE,
     calls |-> [j \in DefaultMasks |-> 0], okSrc |-> {}, waited |-> FALSE,
     hasty |-> FALSE, again |-> FALSE, fallbackCalls |-> 0, fallbackOk |-> FALSE]

\* never leaves the retry loop
RetryingForever(attempts) == TRUE

\* while (attempts < MAX_RETRIES)
Retrying(attempts) == attempts < MAX_RETRIES

\* the loop over the list goes on to the next entry, or is over
ChainNextEntry(c) ==
    IF c.k < NumDefaultMasks
    THEN [c EXCEPT !.pc = "try", !.k = c.k + 1, !.attempts = 0, !.waited = FALSE]
    ELSE IF c.draft = "retry"
    THEN [c EXCEPT !.pc = IF c.loadedAny THEN "returned" ELSE "raised"]
    ELSE [c EXCEPT !.pc = "fallback"]

\* the catch block of the attempt
ChainAfterFailure(c) ==
    IF c.draft = "retry"
    THEN LET d == [c EXCEPT !.attempts = c.attempts + 1, !.waited = FALSE]
         IN IF Retrying(d.attempts) THEN [d EXCEPT !.pc = "delay"]
            ELSE ChainNextEntry(d)
    ELSE ChainNextEntry(c)

\* after the statements that follow a successful addMask in the try block
ChainAfterSuccess(c) ==
    LET d == [c EXCEPT !.loadedAny = TRUE]
    IN IF d.draft = "retry" THEN ChainNextEntry(d)    \* break
       ELSE [d EXCEPT !.pc = "returned"]              \* break / return true

\* loadDefaultMasks() is called on a cache that was just constructed
ChainStart ==
    /\ chain.pc = "idle"
    /\ lastOp.op = "new"
    /\ \E d \in {"retry", "first"} :
          chain' = [ChainIdle EXCEPT !.draft = d, !.pc = "try", !.k = 1]
    /\ UNCHANGED runVars
    /\ UNCHANGED <<variant, loader, masks, maskQueue, activeMaskId, bindGroupLayout,
                   textureCache, destroyedTex, pending, estimateCalls, added, lastOp>>

\* await maskManager.addMask(maskPath, maskPath) on the current entry
ChainAttempt ==
    /\ chain.pc = "try"
    /\ UNCHANGED runVars
    /\ \E loadOk \in BOOLEAN, bindOk \in BOOLEAN :
          AddMask(DefaultMaskId(chain.k), DefaultMaskUrl(chain.k), loadOk, bindOk)
    /\ LET c == [chain EXCEPT
                   !.calls[chain.k] = @ + 1,
                   !.hasty = @ \/ (chain.attempts > 0 /\ ~chain.waited),
                   !.again = @ \/ chain.k \in chain.okSrc]
           ok == [c EXCEPT !.okSrc = @ \cup {chain.k}]
       IN chain' = IF lastOp'.result # "ok" THEN ChainAfterFailure(c)
                   ELSE IF c.draft = "retry" THEN [ok EXCEPT !.pc = "added"]
                   ELSE ChainAfterSuccess(ok)

\* draft "retry", after addMask gave a mask: addMaskPreview(mask), which catches
\* its own errors, then
\*   if (!maskManager.getActiveMask()) await maskManager.setActiveMask(mask.id)
\* still inside the try block
ChainAdded ==
    /\ chain.pc = "added"
    /\ UNCHANGED runVars
    /\ IF GetActiveMaskResult # NoId
       THEN /\ activeMaskId' = HealedActiveId
            /\ lastOp' = Op("getActiveMask", FALSE, "mask", FALSE, 0)
            /\ UNCHANGED <<variant, loader, masks, maskQueue, bindGroupLayout,
                           textureCache, destroyedTex, pending, estimateCalls, added>>
            /\ chain' = ChainAfterSuccess(chain)
       ELSE /\ SetActiveMask(DefaultMaskId(chain.k), FALSE)
            /\ chain' = IF lastOp'.result = "ok" THEN ChainAfterSuccess(chain)
                        ELSE ChainAfterFailure(chain)

\* await new Promise(resolve => setTimeout(resolve, RETRY_DELAY))
ChainDelay ==
    /\ chain.pc = "delay"
    /\ UNCHANGED runVars
    /\ chain' = [chain EXCEPT !.pc = "try", !.waited = TRUE]
    /\ UNCHANGED <<variant, loader, masks, maskQueue, activeMaskId, bindGroupLayout,
                   textureCache, destroyedTex, pending, estimateCalls, added, lastOp>>

\* draft "first", no entry loaded: the canvas of createFallbackTexture() as a
\* data url, then addMask('fallback', fallbackTexture); a failure is rethrown
ChainFallback ==
    /\ chain.pc = "fallback"
    /\ UNCHANGED runVars
    /\ \E loadOk \in BOOLEAN, bindOk \in BOOLEAN :
          AddMask(FallbackId, FallbackUrl, loadOk, bindOk)
    /\ chain' = [chain EXCEPT
                   !.fallbackCalls = @ + 1,
                   !.fallbackOk = lastOp'.result = "ok",
                   !.loadedAny = lastOp'.result = "ok",
                   !.pc = IF lastOp'.result = "ok" THEN "returned" ELSE "raised"]

\* ---------------------------------------------------------------- init
\* The page script exists in two drafts inside app.js:
\*   appDraft = "v1" : lines 1-697; init assigns the global maskManager and
\*                     calls the function loadDefaultMasks (draft "retry");
\*   appDraft = "v2" : lines 698-1567; init keeps the manager in a local const,
\*                     calls the method maskManager.loadDefaultMasks (draft
\*                     "first") inside a try/catch of its own, and the tick
\*                     reads the object `state`, whose fields nothing assigns.

\* pc       : "idle", then the await the run is at: "gpu", "detector", "video",
\*            "manager", "masks"; "ended" once init() has returned
\* caller   : "load" (window load event) or "recovery" (recoveryVideo)
\* ok       : the steps of this run that succeeded
\* failed   : a step of this run failed
\* scheduled: this run called requestAnimationFrame(enhancedRender)
\* outcome  : how the call ended for its caller: "normal" or "raised"
\* runs     : recoveryVideo calls so far
InitIdle ==
    [pc |-> "idle", caller |-> "none", ok |-> {}, failed |-> FALSE,
     scheduled |-> FALSE, outcome |-> "none", runs |-> 0]

\* renderer: "null", "uninit" (constructed, initialize() failed), "ready"
\* model   : faceMeshModel is set
\* video   : "none" (videoStream unset), "ready" (readyState 4, videoWidth > 0),
\*           "stopped" (tracks stopped and srcObject cleared by cleanup)
\* manager : the global maskManager is set
\* device  : renderer.device: "none" (null), "live", "destroyed"
\* cacheDevice : the device the MaskManager of the running init was built on
NoGlobals ==
    [renderer |-> "null", model |-> FALSE, video |-> "none", manager |-> FALSE,
     device |-> "none", cacheDevice |-> "none"]

\* the document and what hangs off it
\* unloaded: the unload event was dispatched
\* drop    : the handleDrop call in flight: pc "idle", "loading" (awaiting
\*           addMask), "added" (addMask answered a mask); id: file.name;
\*           stale: maskManager was reassigned while addMask was loading
\* drops   : drop events so far
\* lastPrediction: window.lastPrediction, as one coordinate of its scaledMesh
\* fresh   : no prediction was processed since the last recoveryVideo call
\* predictionsPerSecond: guiProperties.predictionsPerSecond
\* enableSmoothing: guiProperties.enableSmoothing
\* smoothingFactor: guiProperties.smoothingFactor in halves (0.5 is 1)
NoDrop == [pc |-> "idle", id |-> NoId, stale |-> FALSE]

NoPage ==
    [unloaded |-> FALSE, drop |-> NoDrop, drops |-> 0,
     lastPrediction |-> NoPose, fresh |-> FALSE,
     predictionsPerSecond |-> predictionsPerSecond,
     enableSmoothing |-> TRUE, smoothingFactor |-> 1]

\* the steps a run must have completed before the render loop may start
InitSteps == {"gpu", "detector", "video", "masks", "active"}

\* an error thrown inside init: the catch block of lines 184-193 logs it, writes
\* it to the debug log and lets init return normally
InitCaught(run) ==
    [run EXCEPT !.pc = "ended", !.failed = TRUE, !.outcome = "normal"]

\* a new run of init()
InitBegin(caller, runs) ==
    [InitIdle EXCEPT !.pc = "gpu", !.caller = caller, !.runs = runs]

\* the window load event: init()
PageLoad ==
    /\ initRun.pc = "idle"
    /\ \E d \in {"v1", "v2"} : appDraft' = d
    /\ initRun' = InitBegin("load", 0)
    /\ UNCHANGED <<variant, loader, masks, maskQueue, activeMaskId, bindGroupLayout,
                   textureCache, destroyedTex, pending, estimateCalls, added, lastOp,
                   chain, globals, loops, frameCounter, lastTick, page, frame>>

\* FaceLandmarkRenderer.cleanup(): if (this.device) this.device.destroy()
DeviceAfterCleanup(d) == IF d = "live" THEN "destroyed" ELSE d

\* the globals after cleanup(): the camera tracks are stopped and srcObject is
\* cleared, renderer?.cleanup() destroys the device.  maskManager?.cleanup()
\* is then a TypeError when maskManager is set (neither MaskManager has a
\* method cleanup) and the catch ends the function: no method of the cache is
\* called and nothing is reset.
GlobalsAfterCleanup ==
    [globals EXCEPT !.video = IF @ = "none" THEN "none" ELSE "stopped",
                    !.device = DeviceAfterCleanup(@),
                    !.cacheDevice = DeviceAfterCleanup(@)]

\* the ticks in flight after device.destroy(): every GPU object made on the
\* device is destroyed with it
LoopsAfterCleanup ==
    [l \in 1..Len(loops) |->
        [loops[l] EXCEPT !.maskAlive = @ /\ globals.device # "live"]]

\* visibilitychange to visible: recoveryVideo() runs cleanup(), then init().
\* Taken once the previous init() has returned.
Recover ==
    /\ initRun.pc = "ended"
    /\ initRun.runs < MaxRecoveries
    /\ globals' = GlobalsAfterCleanup
    /\ loops' = LoopsAfterCleanup
    /\ initRun' = InitBegin("recovery", initRun.runs + 1)
    /\ page' = [page EXCEPT !.fresh = TRUE]
    /\ UNCHANGED <<variant, loader, masks, maskQueue, activeMaskId, bindGroupLayout,
                   textureCache, destroyedTex, pending, estimateCalls, added, lastOp,
                   chain, appDraft, frameCounter, lastTick, frame>>

\* the unload event: cleanup(); the document is gone afterwards
Unload ==
    /\ appDraft # "none"
    /\ globals' = GlobalsAfterCleanup
    /\ loops' = LoopsAfterCleanup
    /\ page' = [page EXCEPT !.unloaded = TRUE]
    /\ UNCHANGED <<variant, loader, masks, maskQueue, activeMaskId, bindGroupLayout,
                   textureCache, destroyedTex, pending, estimateCalls, added, lastOp,
                   chain, appDraft, initRun, frameCounter, lastTick, frame>>

\* steps 1-3: navigator.gpu, checkDependencies() (init returns on its failure),
\* renderer = new FaceLandmarkRenderer(); await renderer.initialize(canvas)
InitGpu ==
    /\ initRun.pc = "gpu"
    /\ \E r \in {"nogpu", "nodeps", "rendererFail", "pipelineFail", "ok"} :
          /\ initRun' = IF r = "ok"
                        THEN [initRun EXCEPT !.pc = "detector", !.ok = @ \cup {"gpu"}]
                        ELSE InitCaught(initRun)
          /\ globals' = IF r = "ok"
                        THEN [globals EXCEPT !.renderer = "ready", !.device = "live"]
                        ELSE IF r = "rendererFail"      \* before requestDevice
                        THEN [globals EXCEPT !.renderer = "uninit", !.device = "none"]
                        ELSE IF r = "pipelineFail"      \* after requestDevice
                        THEN [globals EXCEPT !.renderer = "uninit", !.device = "live"]
                        ELSE globals
    /\ UNCHANGED <<variant, loader, masks, maskQueue, activeMaskId, bindGroupLayout,
                   textureCache, destroyedTex, pending, estimateCalls, added, lastOp,
                   chain, appDraft, loops, frameCounter, lastTick, page, frame>>

\* steps 4-5: await tf.ready(); faceMeshModel = await createDetector(...)
InitDetector ==
    /\ initRun.pc = "detector"
    /\ \E ok \in BOOLEAN :
          /\ initRun' = IF ok
                        THEN [initRun EXCEPT !.pc = "video", !.ok = @ \cup {"detector"}]
                        ELSE InitCaught(initRun)
          /\ globals' = IF ok THEN [globals EXCEPT !.model = TRUE] ELSE globals
    /\ UNCHANGED <<variant, loader, masks, maskQueue, activeMaskId, bindGroupLayout,
                   textureCache, destroyedTex, pending, estimateCalls, added, lastOp,
                   chain, appDraft, loops, frameCounter, lastTick, page, frame>>

\* step 6: videoStream = await setupVideoStream(); await waitForVideoReady(...)
InitVideo ==
    /\ initRun.pc = "video"
    /\ \E ok \in BOOLEAN :
          /\ initRun' = IF ok
                        THEN [initRun EXCEPT !.pc = "manager", !.ok = @ \cup {"video"}]
                        ELSE InitCaught(initRun)
          /\ globals' = IF ok THEN [globals EXCEPT !.video = "ready"] ELSE globals
    /\ UNCHANGED <<variant, loader, masks, maskQueue, activeMaskId, bindGroupLayout,
                   textureCache, destroyedTex, pending, estimateCalls, added, lastOp,
                   chain, appDraft, loops, frameCounter, lastTick, page, frame>>

\* the call of loadDefaultMasks that init makes: the function of the "retry"
\* draft in v1; in v2 the method, which only mask-manager.js has (on the class
\* of app.js the call is a TypeError, caught at line 843)
InitChain ==
    IF appDraft = "v1" THEN [ChainIdle EXCEPT !.draft = "retry", !.pc = "try", !.k = 1]
    ELSE IF variant = "mm" THEN [ChainIdle EXCEPT !.draft = "first", !.pc = "try", !.k = 1]
    ELSE [ChainIdle EXCEPT !.draft = "first", !.pc = "raised"]

\* step 7: TextureLoader.initialize(renderer.device); new MaskManager(...);
\* then the call of loadDefaultMasks
InitManager ==
    /\ initRun.pc = "manager"
    /\ initRun' = [initRun EXCEPT !.pc = "masks"]
    /\ globals' = [globals EXCEPT !.manager = IF appDraft = "v1" THEN TRUE ELSE @,
                                  !.cacheDevice = globals.device]
    /\ page' = [page EXCEPT !.drop.stale = (page.drop.pc = "loading")]
    /\ masks' = <<>>
    /\ maskQueue' = <<>>
    /\ activeMaskId' = NoId
    /\ bindGroupLayout' = TRUE
    /\ textureCache' = {}
    /\ destroyedTex' = {}
    /\ pending' = [i \in Ids |-> 0]
    /\ estimateCalls' = [i \in Ids |-> 0]
    /\ added' = 0
    /\ lastOp' = Op("new", FALSE, "ok", FALSE, 0)
    /\ chain' = InitChain
    /\ UNCHANGED <<variant, loader, appDraft, loops, frameCounter, lastTick, frame>>

\* maskManager && maskManager.getActiveMask(), on the global maskManager
MaskReady == globals.manager /\ GetActiveMaskResult # NoId

\* isRenderingReady(): videoStream?.readyState === 4, the mask, renderer != null,
\* faceMeshModel != null
IsRenderingReady ==
    /\ globals.video = "ready"
    /\ MaskReady
    /\ globals.renderer # "null"
    /\ globals.model

\* the gate left open whatever the steps gave
InitGateOpen == TRUE

\* what init checks between loadDefaultMasks and requestAnimationFrame:
\* v1: masksLoaded, getActiveMask(), isRenderingReady();
\* v2: getActiveMask() on its local manager, isVideoReady(videoStream)
InitGate ==
    IF appDraft = "v1"
    THEN chain.pc = "returned" /\ GetActiveMaskResult # NoId /\ IsRenderingReady
    ELSE GetActiveMaskResult # NoId /\ globals.video = "ready"

\* a requestAnimationFrame chain whose callback is scheduled
\* sched: the callback is scheduled; detecting: the tick awaits estimateFaces;
\* rendering: the tick awaits renderer.render; mask: the activeMask the tick
\* passed to render; maskAlive: the GPU objects of that mask are not destroyed;
\* started: the recoveryVideo calls made when the tick in flight called
\* estimateFaces
NewLoop ==
    [sched |-> TRUE, detecting |-> FALSE, rendering |-> FALSE,
     mask |-> NoId, maskAlive |-> FALSE, started |-> 0]

\* steps 8-11, from the return of loadDefaultMasks to the start of the loop
InitFinish ==
    /\ initRun.pc = "masks"
    /\ chain.pc \in {"returned", "raised"}
    /\ LET loaded == chain.pc = "returned"
           asked == appDraft = "v2" \/ loaded          \* getActiveMask() is reached
           got == (IF loaded THEN {"masks"} ELSE {}) \cup
                  (IF asked /\ GetActiveMaskResult # NoId THEN {"active"} ELSE {})
       IN /\ initRun' = IF InitGate
                        THEN [initRun EXCEPT !.pc = "ended", !.ok = @ \cup got,
                                             !.scheduled = TRUE, !.outcome = "normal"]
                        ELSE InitCaught([initRun EXCEPT !.ok = @ \cup got])
          /\ loops' = IF InitGate THEN Append(loops, NewLoop) ELSE loops
          /\ activeMaskId' = IF asked THEN HealedActiveId ELSE activeMaskId
          /\ lastOp' = IF asked
                       THEN Op("getActiveMask", FALSE,
                               IF GetActiveMaskResult = NoId THEN "null" ELSE "mask",
                               FALSE, 0)
                       ELSE lastOp
    \* the locals of loadDefaultMasks are gone
    /\ chain' = ChainIdle
    /\ UNCHANGED <<variant, loader, masks, maskQueue, bindGroupLayout, textureCache,
                   destroyedTex, pending, estimateCalls, added, appDraft,
                   globals, frameCounter, lastTick, page, frame>>

\* ---------------------------------------------------------------- enhancedRender
\* Math.round(60 / rate) for a whole rate: the quotient rounded half up
RoundedInterval(rate) == (2 * 60 + rate) \div (2 * rate)

\* Math.round(60 / guiProperties.predictionsPerSecond)
DetectEvery == RoundedInterval(page.predictionsPerSecond)

\* frameCounter++; only frameCounter % DetectEvery is read by the tick
NextFrame(n) == (n + 1) % DetectEvery

\* step     : "start" (the callback ran up to its first await or its end),
\*            "detected" (estimateFaces came back), "rendered" (render came back)
\* ready    : video, mask, model and renderer were all ready when the tick began
\* detector : this step called estimateFaces
\* failed   : estimateFaces raised
\* render   : this step called renderer.render
\* counted  : this step incremented frameCounter
\* next     : requestAnimationFrame calls of this step
\* live     : the prediction estimateFaces answered in this step
\* processed: processedPrediction, what the step went on with
NoTick ==
    [loop |-> 0, step |-> "none", ready |-> FALSE, detector |-> FALSE,
     failed |-> FALSE, render |-> FALSE, counted |-> FALSE, next |-> 0,
     live |-> NoPose, processed |-> NoPose]

Tick(l, step, ready, detector, failed, render, counted, next) ==
    [NoTick EXCEPT !.loop = l, !.step = step, !.ready = ready,
                   !.detector = detector, !.failed = failed, !.render = render,
                   !.counted = counted, !.next = next]

\* the weights of the live and the previous point exchanged
SmoothSwapped(point, lastPoint) ==
    (point * page.smoothingFactor + lastPoint * (2 - page.smoothingFactor)) \div 2

\* point * (1 - factor) + lastPoint * factor with factor =
\* guiProperties.smoothingFactor, rounded to the last place kept
Smooth(point, lastPoint) ==
    (point * (2 - page.smoothingFactor) + lastPoint * page.smoothingFactor) \div 2

\* smoothPredictions(prediction) with guiProperties.enableSmoothing: what it
\* returns and stores in window.lastPrediction
SmoothPredictions(prediction, last) ==
    IF last = NoPose THEN prediction ELSE Smooth(prediction, last)

\* the rest of a tick that dies: no requestAnimationFrame
TickDies(t) == [NewLoop EXCEPT !.sched = FALSE]

\* the end of every path of the tick: requestAnimationFrame(enhancedRender)
TickEnd(t) == NewLoop

\* the detection is left in flight
DetectionInFlight(t) == t

\* await faceMeshModel.estimateFaces(...) has resolved or thrown
DetectionSettled(t) == [t EXCEPT !.detecting = FALSE]

\* state.maskManager of v2: initialised to null and never assigned
StateMaskManager == FALSE

\* the readiness test the tick itself makes: v1 looks at the video only
\* (!videoStream || !videoStream.videoWidth), v2 calls isRenderingReady() and
\* then reads state.maskManager
TickReady ==
    IF appDraft = "v1" THEN globals.video = "ready"
    ELSE IsRenderingReady /\ StateMaskManager

\* a tick that requests the next frame before it awaits the detector
TickAwaitsScheduled(t) ==
    [NewLoop EXCEPT !.detecting = TRUE, !.started = initRun.runs]

\* the tick stops at await faceMeshModel.estimateFaces(...): its callback has
\* run, nothing is scheduled until the tick goes on
TickAwaitsDetection(t) ==
    [NewLoop EXCEPT !.sched = FALSE, !.detecting = TRUE, !.started = initRun.runs]

\* the display-refresh callback of loop l, up to its first await or its end
TickStart(l) ==
    /\ loops[l].sched
    /\ IF ~TickReady
       THEN /\ lastTick' = Tick(l, "start", IsRenderingReady, FALSE, FALSE, FALSE, FALSE, 1)
            /\ UNCHANGED <<loops, frameCounter>>
       ELSE IF frameCounter % DetectEvery = 0 /\ globals.model
       THEN /\ loops' = [loops EXCEPT ![l] = TickAwaitsDetection(@)]
            /\ lastTick' = Tick(l, "start", IsRenderingReady, TRUE, FALSE, FALSE, FALSE, 0)
            /\ UNCHANGED frameCounter
       ELSE /\ frameCounter' = NextFrame(frameCounter)
            /\ loops' = [loops EXCEPT ![l] = TickEnd(@)]
            /\ lastTick' = Tick(l, "start", IsRenderingReady, FALSE, FALSE, FALSE, TRUE, 1)
    /\ UNCHANGED <<variant, loader, masks, maskQueue, activeMaskId, bindGroupLayout,
                   textureCache, destroyedTex, pending, estimateCalls, added, lastOp,
                   chain, appDraft, initRun, globals, page, frame>>

\* guiProperties.enableSmoothing ? smoothPredictions(predictions[0]) :
\* predictions[0]
ProcessedPrediction(p) ==
    IF page.enableSmoothing THEN SmoothPredictions(p, page.lastPrediction) ELSE p

\* estimateFaces of the tick of loop l comes back: r = "error" (it raised),
\* "noface" (no prediction) or "face" (the prediction p); with a face the tick
\* smooths it, takes maskManager?.getActiveMask() and, given a mask, calls
\* renderer.render
TickDetected(l, r, p) ==
    /\ loops[l].detecting
    /\ page' = IF r = "face"
               THEN [page EXCEPT !.lastPrediction = IF page.enableSmoothing
                                                    THEN ProcessedPrediction(p)
                                                    ELSE @,
                                 !.fresh = FALSE]
               ELSE page
    /\ LET t == DetectionSettled(loops[l])
           draw == r = "face" /\ MaskReady
       IN /\ loops' = [loops EXCEPT ![l] =
                         IF draw
                         THEN [t EXCEPT !.rendering = TRUE,
                                        !.mask = GetActiveMaskResult,
                                        !.maskAlive = (globals.cacheDevice = "live")]
                         ELSE TickEnd(t)]
          /\ frameCounter' = IF draw THEN frameCounter ELSE NextFrame(frameCounter)
          /\ lastTick' = [Tick(l, "detected", lastTick.ready, FALSE, r = "error", draw,
                               ~draw, IF draw THEN 0 ELSE 1)
                             EXCEPT !.live = IF r = "face" THEN p ELSE NoPose,
                                    !.processed = IF r = "face"
                                                  THEN ProcessedPrediction(p)
                                                  ELSE NoPose]
          /\ activeMaskId' = IF r = "face" /\ globals.manager THEN HealedActiveId
                             ELSE activeMaskId
    /\ UNCHANGED <<variant, loader, masks, maskQueue, bindGroupLayout, textureCache,
                   destroyedTex, pending, estimateCalls, added, lastOp, chain,
                   appDraft, initRun, globals, frame>>

\* renderer.render of the tick of loop l resolves, or throws into the catch of
\* lines 415-418; then frameCounter++ and requestAnimationFrame
TickRendered(l) ==
    /\ loops[l].rendering
    /\ loops' = [loops EXCEPT ![l] = TickEnd(@)]
    /\ frameCounter' = NextFrame(frameCounter)
    /\ lastTick' = Tick(l, "rendered", lastTick.ready, FALSE, FALSE, FALSE, TRUE, 1)
    /\ UNCHANGED <<variant, loader, masks, maskQueue, activeMaskId, bindGroupLayout,
                   textureCache, destroyedTex, pending, estimateCalls, added, lastOp,
                   chain, appDraft, initRun, globals, page, frame>>

TickStartAny == \E l \in 1..Len(loops) : TickStart(l)

\* what estimateFaces can answer: it raises, finds no face, or finds one at p
Detections(P) == ({"error", "noface"} \X {NoPose}) \cup ({"face"} \X P)

\* a face that holds still
StillFace == {1}

TickDetectedAny ==
    \E l \in 1..Len(loops), d \in Detections(StillFace) : TickDetected(l, d[1], d[2])

\* a face that moves
TickDetectedMoving ==
    \E l \in 1..Len(loops), d \in Detections(Poses) : TickDetected(l, d[1], d[2])

TickRenderedAny == \E l \in 1..Len(loops) : TickRendered(l)

\* a render that gives way to the event loop before it settles
RenderYieldsToEvents == TRUE

\* FaceLandmarkRenderer.render has no await in its body: the promise the tick
\* awaits is settled when render returns
RenderYields == FALSE

\* the continuation of a tick after its render call is queued
RenderSettling == \E l \in 1..Len(loops) : loops[l].rendering

\* an event or a callback is dispatched only when no continuation is queued
TaskTurn == RenderYields \/ ~RenderSettling

\* ---------------------------------------------------------------- FaceLandmarkRenderer
\* the state of the mask cache and the texture loader
cacheVars == <<variant, loader, masks, maskQueue, activeMaskId, bindGroupLayout,
               textureCache, destroyedTex, pending, estimateCalls, added, lastOp>>

Coords == 0..MaxCoord

\* a landmark: [x, y, z]
Points == Coords \X Coords \X Coords

\* prediction.scaledMesh, mask.landmarks
Meshes == UNION {[1..n -> Points] : n \in 0..MaxVertices}

\* step: "none", "input" (the arguments of createVertexData are given), "built"
\* (it returned), "thrown" (it raised), "drawn" (the vertex stage ran)
\* live: prediction.scaledMesh; hasRef: maskLandmarks is an array; ref: its
\* points; data: the Float32Array; out: pos of the vertex stage, per vertex
NoFrame ==
    [step |-> "none", live |-> <<>>, hasRef |-> FALSE, ref |-> <<>>,
     data |-> <<>>, out |-> <<>>]

\* floats createVertexData writes for one vertex: 3 + 2 + 3 + 1
FloatsWritten == 9

\* floats per vertex of the array (scaledMesh.length * 10) and of the buffer
\* layout (arrayStride: 40 bytes)
FloatsPerVertex == 10

\* the 9 floats of one vertex: pos, getMeshUV(i) = [0, 0], maskPos,
\* getVertexAlpha(i) = 1.0
VertexFloats(pos, maskPos) ==
    <<pos[1], pos[2], pos[3], 0, 0, maskPos[1], maskPos[2], maskPos[3], 1>>

\* maskLandmarks[i] is undefined (or maskLandmarks is null) for some i of the
\* loop: maskPos[0] raises a TypeError
CreateVertexDataThrows(live, hasRef, ref) ==
    Len(live) > 0 /\ (~hasRef \/ Len(ref) < Len(live))

\* createVertexData(prediction, maskLandmarks): a zero-filled array of
\* 10 floats per live landmark, written back to back from offset 0
CreateVertexData(live, ref) ==
    [j \in 1..(FloatsPerVertex * Len(live)) |->
        IF j <= FloatsWritten * Len(live)
        THEN LET i == ((j - 1) \div FloatsWritten) + 1
                 offset == ((j - 1) % FloatsWritten) + 1
             IN VertexFloats(live[i], ref[i])[offset]
        ELSE 0]

\* the attributes of vertex i as the pipeline fetches them: position at byte
\* offset 0, landmark at byte offset 20 of each 40-byte stride
VertexInputAt(data, i) ==
    LET base == FloatsPerVertex * (i - 1)
    IN [position |-> <<data[base + 1], data[base + 2], data[base + 3]>>,
        landmark |-> <<data[base + 6], data[base + 7], data[base + 8]>>]

\* WGSL mix(x, y, a) = x * (1 - a) + y * a, for a of 0 or 1
Mix(x, y, a) == [k \in 1..3 |-> x[k] * (1 - a) + y[k] * a]

\* uniforms.properties.w: render() writes 0 ("unused")
MorphUniform == 0

\* the vertex stage up to the flip: mix(input.position, input.landmark, w)
VertexMain(input) == Mix(input.position, input.landmark, MorphUniform)

\* renderPass.draw(vertexData.length / 10)
DrawCount(data) == Len(data) \div FloatsPerVertex

\* a call of render reaches createVertexData with these arguments
RenderInput ==
    /\ frame.step = "none"
    /\ \E live \in Meshes, ref \in Meshes, hasRef \in BOOLEAN :
          /\ ~hasRef => ref = <<>>
          /\ frame' = [NoFrame EXCEPT !.step = "input", !.live = live,
                                      !.hasRef = hasRef, !.ref = ref]
    /\ UNCHANGED <<cacheVars, chain, appDraft, initRun, globals, loops,
                   frameCounter, lastTick, page>>

\* createVertexData returns or raises
CreateVertexDataCall ==
    /\ frame.step = "input"
    /\ frame' = IF CreateVertexDataThrows(frame.live, frame.hasRef, frame.ref)
                THEN [frame EXCEPT !.step = "thrown"]
                ELSE [frame EXCEPT !.step = "built",
                                   !.data = CreateVertexData(frame.live, frame.ref)]
    /\ UNCHANGED <<cacheVars, chain, appDraft, initRun, globals, loops,
                   frameCounter, lastTick, page>>

\* the draw: the vertex stage runs once per vertex index
Draw ==
    /\ frame.step = "built"
    /\ frame' = [frame EXCEPT !.step = "drawn",
                              !.out = [i \in 1..DrawCount(frame.data) |->
                                          VertexMain(VertexInputAt(frame.data, i))]]
    /\ UNCHANGED <<cacheVars, chain, appDraft, initRun, globals, loops,
                   frameCounter, lastTick, page>>

\* ---------------------------------------------------------------- loadImage
\* loadImage step by step.  The loader exists in three drafts:
\*   "cached"   : part_002 13-25, no try/catch, no test of response.ok
\*   "status"   : part_002 146-178, throws on !response.ok, and its catch
\*                answers createFallbackTexture()
\*   "nostatus" : part_002 443-485, no test of response.ok, same catch
LoadDrafts == IF loader = "cached" THEN {"cached"} ELSE {"status", "nostatus"}

\* a call of loadImage as lastOp records it
\* pc: "fetch" (awaiting fetch), "decode" (awaiting createImageBitmap), "done"
\* fetches: calls of fetch made; failures: what went wrong, among "fetch" (it
\* rejected), "status" (response.ok is false), "decode" (the bitmap)
\* result: "none", "texture" (of the image), "fallback" (the substitute
\* texture), "error" (the promise rejected); n: loadImage calls so far
LoadOp(draft, url, pc, fetches, failures, result, n) ==
    [op |-> "loadImage", known |-> FALSE, touched |-> FALSE, destroyCalls |-> 0,
     draft |-> draft, url |-> url, pc |-> pc, fetches |-> fetches,
     failures |-> failures, result |-> result, n |-> n]

\* a loadImage call is awaiting something
LoadInFlight == lastOp.op = "loadImage" /\ lastOp.pc # "done"

LoadsSoFar == IF lastOp.op = "loadImage" THEN lastOp.n ELSE 0

\* how the call ends once something failed: the cached draft lets the error
\* through, the catch of the other two answers the fallback texture
LoadFailed(op, failure) ==
    [op EXCEPT !.pc = "done", !.failures = @ \cup {failure},
               !.result = IF op.draft = "cached" THEN "error" ELSE "fallback"]

\* loadImage(url) up to its first await
LoadImageCall ==
    /\ ~LoadInFlight
    /\ LoadsSoFar < MaxLoads
    /\ \E url \in Urls, draft \in LoadDrafts :
          lastOp' = IF LoadHit(url)
                    THEN LoadOp(draft, url, "done", 0, {}, "texture", LoadsSoFar + 1)
                    ELSE LoadOp(draft, url, "fetch", 1, {}, "none", LoadsSoFar + 1)
    /\ UNCHANGED <<variant, loader, masks, maskQueue, activeMaskId, bindGroupLayout,
                   textureCache, destroyedTex, pending, estimateCalls, added>>
    /\ UNCHANGED appVars

\* fetch settles: it rejects, or answers a response whose ok is false, or true
LoadFetched ==
    /\ LoadInFlight
    /\ lastOp.pc = "fetch"
    /\ \E r \in {"rejected", "notOk", "ok"} :
          lastOp' = IF r = "rejected" THEN LoadFailed(lastOp, "fetch")
                    ELSE IF r = "ok" THEN [lastOp EXCEPT !.pc = "decode"]
                    ELSE IF lastOp.draft = "status" THEN LoadFailed(lastOp, "status")
                    ELSE [lastOp EXCEPT !.pc = "decode", !.failures = @ \cup {"status"}]
    /\ UNCHANGED <<variant, loader, masks, maskQueue, activeMaskId, bindGroupLayout,
                   textureCache, destroyedTex, pending, estimateCalls, added>>
    /\ UNCHANGED appVars

\* response.blob() and createImageBitmap settle; decodeOk: the body is an image
LoadDecoded ==
    /\ LoadInFlight
    /\ lastOp.pc = "decode"
    /\ \E decodeOk \in BOOLEAN :
          /\ lastOp' = IF decodeOk
                       THEN [lastOp EXCEPT !.pc = "done", !.result = "texture"]
                       ELSE LoadFailed(lastOp, "decode")
          /\ textureCache' = IF decodeOk THEN CacheAfterLoad(lastOp.url)
                             ELSE textureCache
    /\ UNCHANGED <<variant, loader, masks, maskQueue, activeMaskId, bindGroupLayout,
                   destroyedTex, pending, estimateCalls, added>>
    /\ UNCHANGED appVars

\* ---------------------------------------------------------------- handleDrop
\* the held masks of the ticks in flight after a call that left the cache as m:
\* removeMask destroyed the texture of every mask that is gone
LoopsAfterRemoval(m) ==
    [l \in 1..Len(loops) |->
        [loops[l] EXCEPT !.maskAlive = @ /\ HasMask(m, loops[l].mask)]]

\* the drop event up to "await maskManager.addMask(file.name, file)"; with the
\* global maskManager unset the call is a TypeError, caught at line 670
DropStart ==
    /\ appDraft # "none"
    /\ page.drop.pc = "idle"
    /\ page.drops < MaxDrops
    /\ IF globals.manager
       THEN /\ \E id \in CandidateIds :
                  page' = [page EXCEPT !.drop = [pc |-> "loading", id |-> id,
                                                 stale |-> FALSE],
                                       !.drops = @ + 1]
            /\ UNCHANGED lastOp
       ELSE /\ page' = [page EXCEPT !.drops = @ + 1]
            /\ lastOp' = Op("handleDrop", FALSE, "TypeError", FALSE, 0)
    /\ UNCHANGED <<variant, loader, masks, maskQueue, activeMaskId, bindGroupLayout,
                   textureCache, destroyedTex, pending, estimateCalls, added,
                   chain, appDraft, initRun, globals, loops, frameCounter, lastTick, frame>>

\* addMask of the drop settles.  It runs on the manager it was called on: when
\* maskManager was reassigned meanwhile, the cache of the page is not the one
\* it stores into.
DropLoaded ==
    /\ page.drop.pc = "loading"
    /\ \E loadOk \in BOOLEAN, bindOk \in BOOLEAN :
          IF page.drop.stale
          THEN /\ page' = [page EXCEPT !.drop = IF loadOk /\ bindOk
                                                 THEN [@ EXCEPT !.pc = "added"]
                                                 ELSE NoDrop]
               /\ UNCHANGED <<variant, loader, masks, maskQueue, activeMaskId,
                              bindGroupLayout, textureCache, destroyedTex, pending,
                              estimateCalls, added, lastOp, loops>>
          ELSE /\ AddMask(page.drop.id, File, loadOk, bindOk)
               /\ page' = [page EXCEPT !.drop = IF lastOp'.result = "ok"
                                                 THEN [@ EXCEPT !.pc = "added"]
                                                 ELSE NoDrop]
               /\ loops' = LoopsAfterRemoval(masks')
    /\ UNCHANGED <<chain, appDraft, initRun, globals, frameCounter, lastTick, frame>>

\* handleDrop resumes: addMaskPreview(mask); maskManager.setActiveMask(file.name)
\* on the manager the global names now
DropSelect ==
    /\ page.drop.pc = "added"
    /\ \E detectorReached \in BOOLEAN : SetActiveMask(page.drop.id, detectorReached)
    /\ page' = [page EXCEPT !.drop = NoDrop]
    /\ UNCHANGED <<chain, appDraft, initRun, globals, loops, frameCounter, lastTick, frame>>

\* the values the 'FPS Target' slider gives
Rates == MinPredictionsPerSecond..MaxPredictionsPerSecond

\* the 'FPS Target' slider of the GUI is moved, before the render loop starts
SetRate ==
    /\ appDraft # "none"
    /\ Len(loops) = 0
    /\ \E rate \in Rates : page' = [page EXCEPT !.predictionsPerSecond = rate]
    /\ UNCHANGED <<cacheVars, chain, appDraft, initRun, globals, loops,
                   frameCounter, lastTick, frame>>

\* the 'Enable Smoothing' box and the 'Smooth Factor' slider (0..1) of the GUI
SetSmoothing ==
    /\ appDraft # "none"
    /\ \E on \in BOOLEAN, factor \in 0..2 :
          page' = [page EXCEPT !.enableSmoothing = on, !.smoothingFactor = factor]
    /\ UNCHANGED <<cacheVars, chain, appDraft, initRun, globals, loops,
                   frameCounter, lastTick, frame>>

\* a click on a mask preview: maskManager.setActiveMask(mask.id)
PreviewClick ==
    /\ globals.manager
    /\ \E id \in MaskIds(masks) : SetActiveMask(id, FALSE)
    /\ UNCHANGED appVars

\* ---------------------------------------------------------------- specification
\* new MaskManager(device, textureLoader)
Init ==
    /\ variant \in {"mm", "app"}
    /\ loader \in {"cached", "plain"}
    /\ masks = <<>>
    /\ maskQueue = <<>>
    /\ activeMaskId = NoId
    /\ bindGroupLayout = TRUE
    /\ textureCache = {}
    /\ destroyedTex = {}
    /\ pending = [i \in Ids |-> 0]
    /\ estimateCalls = [i \in Ids |-> 0]
    /\ added = 0
    /\ lastOp = Op("new", FALSE, "ok", FALSE, 0)
    /\ chain = ChainIdle
    /\ appDraft = "none"
    /\ initRun = InitIdle
    /\ globals = NoGlobals
    /\ loops = <<>>
    /\ frameCounter = 0
    /\ lastTick = NoTick
    /\ page = NoPage
    /\ frame = NoFrame

\* a dropped file: maskManager.addMask(file.name, file)
AddMaskFromFile ==
    \E id \in CandidateIds, loadOk \in BOOLEAN, bindOk \in BOOLEAN :
        AddMask(id, File, loadOk, bindOk) /\ UNCHANGED appVars

\* a mask named by its url: maskManager.addMask(id, url)
AddMaskFromUrl ==
    \E id \in CandidateIds, url \in Urls, loadOk \in BOOLEAN, bindOk \in BOOLEAN :
        AddMask(id, url, loadOk, bindOk) /\ UNCHANGED appVars

\* a dropped file, while few masks are in play
AddMaskForMemo == added < MaxMemoMasks /\ AddMaskFromFile

\* setActiveMask whose landmark computation ends before estimateFaces
SetActiveMaskNoDetector ==
    (\E id \in CandidateIds : SetActiveMask(id, FALSE)) /\ UNCHANGED appVars

\* setActiveMask whose landmark computation reaches estimateFaces
SetActiveMaskDetector ==
    (\E id \in MaskIds(masks) : SetActiveMask(id, TRUE)) /\ UNCHANGED appVars

LandmarksReturnAny ==
    (\E id \in Ids, found \in BOOLEAN : LandmarksReturn(id, found)) /\ UNCHANGED appVars

RemoveMaskAny == (\E id \in CandidateIds : RemoveMask(id)) /\ UNCHANGED appVars

\* the cache as its callers drive it, every load making a texture of its own
Next ==
    \/ AddMaskFromFile
    \/ GetActiveMask
    \/ SetActiveMaskNoDetector
    \/ RemoveMaskAny
    \/ Destroy

Spec == Init /\ [][Next]_vars

\* the cache fed by url, where the caching loader hands out one texture per url
NextTex ==
    \/ AddMaskFromUrl
    \/ GetActiveMask
    \/ SetActiveMaskNoDetector
    \/ RemoveMaskAny
    \/ Destroy

SpecTex == Init /\ [][NextTex]_vars

\* the cache with the landmark detector in the loop
NextMemo ==
    \/ AddMaskForMemo
    \/ SetActiveMaskNoDetector
    \/ SetActiveMaskDetector
    \/ LandmarksReturnAny
    \/ RemoveMaskAny

SpecMemo == Init /\ [][NextMemo]_vars

\* one run of loadDefaultMasks on a new cache; every await of the run resolves
NextChain ==
    \/ ChainStart
    \/ ChainAttempt
    \/ ChainAdded
    \/ ChainDelay
    \/ ChainFallback

SpecChain == Init /\ [][NextChain]_vars /\ WF_vars(NextChain)

\* the page: load, init with its mask loading, the render loops, one recovery
NextApp ==
    \/ TaskTurn /\ PageLoad
    \/ TaskTurn /\ Recover
    \/ TaskTurn /\ InitGpu
    \/ TaskTurn /\ InitDetector
    \/ TaskTurn /\ InitVideo
    \/ TaskTurn /\ InitManager
    \/ TaskTurn /\ ChainAttempt
    \/ TaskTurn /\ ChainAdded
    \/ TaskTurn /\ ChainDelay
    \/ TaskTurn /\ ChainFallback
    \/ TaskTurn /\ InitFinish
    \/ TaskTurn /\ TickStartAny
    \/ TaskTurn /\ TickDetectedAny
    \/ TickRenderedAny

SpecApp == Init /\ [][NextApp]_vars

\* the page in front of a face that moves
NextSmooth ==
    \/ TaskTurn /\ PageLoad
    \/ TaskTurn /\ Recover
    \/ TaskTurn /\ InitGpu
    \/ TaskTurn /\ InitDetector
    \/ TaskTurn /\ InitVideo
    \/ TaskTurn /\ InitManager
    \/ TaskTurn /\ ChainAttempt
    \/ TaskTurn /\ ChainAdded
    \/ TaskTurn /\ ChainDelay
    \/ TaskTurn /\ ChainFallback
    \/ TaskTurn /\ InitFinish
    \/ TaskTurn /\ TickStartAny
    \/ TaskTurn /\ TickDetectedMoving
    \/ TickRenderedAny

SpecSmooth == Init /\ [][NextSmooth]_vars

\* the page in front of a face that moves, the smoothing set on the GUI; one
\* run of init and its render loop
NextSmoothing ==
    \/ TaskTurn /\ SetSmoothing
    \/ TaskTurn /\ PageLoad
    \/ TaskTurn /\ InitGpu
    \/ TaskTurn /\ InitDetector
    \/ TaskTurn /\ InitVideo
    \/ TaskTurn /\ InitManager
    \/ TaskTurn /\ ChainAttempt
    \/ TaskTurn /\ ChainAdded
    \/ TaskTurn /\ ChainDelay
    \/ TaskTurn /\ InitFinish
    \/ TaskTurn /\ TickStartAny
    \/ TaskTurn /\ TickDetectedMoving
    \/ TickRenderedAny

SpecSmoothing == Init /\ [][NextSmoothing]_vars

\* the page whose detection rate is chosen on the GUI
NextCadence ==
    \/ TaskTurn /\ SetRate
    \/ NextApp

SpecCadence == Init /\ [][NextCadence]_vars

\* the same, where an awaited estimateFaces or render call always comes back
SpecAppFair ==
    /\ Init /\ [][NextApp]_vars
    /\ \A l \in 1..(MaxRecoveries + 1) :
          /\ WF_vars(/\ l <= Len(loops)
                      /\ TaskTurn
                      /\ \E d \in Detections(StillFace) : TickDetected(l, d[1], d[2]))
          /\ WF_vars(l <= Len(loops) /\ TickRendered(l))

\* the texture loader called directly
NextLoad ==
    \/ LoadImageCall
    \/ LoadFetched
    \/ LoadDecoded

SpecLoad == Init /\ [][NextLoad]_vars

\* the renderer given meshes to draw
NextVertex ==
    \/ RenderInput
    \/ CreateVertexDataCall
    \/ Draw

SpecVertex == Init /\ [][NextVertex]_vars

\* the events of the page are dispatched while its document lives, and the
\* continuations of handleDrop and of a tick run before any other event
PageLive == ~page.unloaded /\ page.drop.pc # "added" /\ TaskTurn

\* the page with its file drops, mask selection and unload
NextPage ==
    \/ PageLive /\ PageLoad
    \/ PageLive /\ Recover
    \/ PageLive /\ Unload
    \/ PageLive /\ InitGpu
    \/ PageLive /\ InitDetector
    \/ PageLive /\ InitVideo
    \/ PageLive /\ InitManager
    \/ PageLive /\ ChainAttempt
    \/ PageLive /\ ChainAdded
    \/ PageLive /\ ChainDelay
    \/ PageLive /\ ChainFallback
    \/ PageLive /\ InitFinish
    \/ PageLive /\ TickStartAny
    \/ PageLive /\ TickDetectedAny
    \/ ~page.unloaded /\ TickRenderedAny
    \/ PageLive /\ DropStart
    \/ PageLive /\ DropLoaded
    \/ PageLive /\ PreviewClick
    \/ PageLive /\ LandmarksReturnAny
    \/ DropSelect

SpecPage == Init /\ [][NextPage]_vars

TypeOK ==
    /\ variant \in {"mm", "app"}
    /\ activeMaskId \in Ids \cup {NoId}
    /\ Len(maskQueue) <= maxMasks

\* ================================================================ claims
\* ids held by the insertion-order queue
QueueIds(q) == {q[i] : i \in 1..Len(q)}

\* the step is a call of method op that has returned
Called(op) == lastOp'.op = op

\* the step is an addMask call that stored its mask
Added == Called("addMask") /\ lastOp'.result = "ok"

\* the id the addMask of this step stored: push() put it last in maskQueue and
\* cleanupOldMasks only shifts from the front
NewId == maskQueue'[Len(maskQueue')]

\* C1. Capacity invariant: after every addMask call the number of live entries
\* is at most maxMasks.
C1_CapacityInvariant == Len(masks) <= maxMasks

\* the active entry is live and the texture it holds has not been destroyed
ActiveIntact(m, active, destroyed) ==
    active # NoId => (HasMask(m, active) /\ GetMask(m, active).tex \notin destroyed)

\* C2. Capacity-triggered eviction never removes or destroys the active entry:
\* an addMask that evicts leaves the entry named by activeId in entries with its
\* texture not destroyed.
C2_EvictionSparesActive ==
    [][(Added /\ lastOp'.destroyCalls > 0 /\ ActiveIntact(masks, activeMaskId, destroyedTex))
          => ActiveIntact(masks', activeMaskId', destroyedTex')]_vars

\* the oldest-inserted entries of m that are not the active one, as many as
\* exceed the capacity
RECURSIVE OldestNonActive(_, _, _)
OldestNonActive(m, active, n) ==
    IF n = 0 \/ m = <<>> THEN {}
    ELSE IF Head(m).id = active THEN OldestNonActive(Tail(m), active, n)
    ELSE {Head(m).id} \cup OldestNonActive(Tail(m), active, n - 1)

\* entries once the new id is inserted, before eviction
InsertedIds == MaskIds(masks) \cup {NewId}

\* C3. When an addMask pushes the entry count above capacity, the entries that
\* are destroyed are the oldest-inserted ids other than activeId, and as many as
\* bring the count back to capacity.
C3_EvictsOldestNonActive ==
    [][(Added /\ Cardinality(InsertedIds) > maxMasks)
          => /\ Len(masks') = maxMasks
             /\ InsertedIds \ MaskIds(masks') =
                  OldestNonActive(MapSet(masks, [id |-> NewId, tex |-> OwnTex,
                                                 landmarks |-> FALSE]),
                                  activeMaskId',
                                  Cardinality(InsertedIds) - maxMasks)]_vars

\* C4. activeId is unset or names an entry that is present in entries.
C4_ActiveIdIsLive == activeMaskId = NoId \/ HasMask(masks, activeMaskId)

\* C5. Self-healing active pointer: getActiveMask() on a cache with entries and
\* no activeId answers the earliest-inserted entry and makes it active; on an
\* empty cache it answers none and changes nothing.
C5_SelfHealing ==
    [][Called("getActiveMask")
          => /\ (activeMaskId = NoId /\ Len(masks) > 0)
                   => (lastOp'.result = "mask" /\ activeMaskId' = masks[1].id)
             /\ Len(masks) = 0
                   => (lastOp'.result = "null" /\ activeMaskId' = activeMaskId)]_vars

\* C6. getActiveMask() answers none only if the cache has no entries.
C6_ActiveMaskWhenNonEmpty == Len(masks) > 0 => GetActiveMaskResult # NoId

\* what a call with an id that is not in the cache must leave alone
CacheUntouched ==
    /\ UNCHANGED <<masks, maskQueue, activeMaskId, bindGroupLayout, textureCache,
                   destroyedTex, pending, estimateCalls, added>>
    /\ ~lastOp'.touched
    /\ lastOp'.destroyCalls = 0

\* the step is setActiveMask or removeMask with an id that is not in the cache
UnknownIdCall(op) == Called(op) /\ ~lastOp'.known

\* C7 as stated. setActiveMask(id) and removeMask(id) with an unknown id both
\* report a NotFoundError and change no state.
C7_UnknownIdRejected ==
    [][(UnknownIdCall("setActiveMask") \/ UnknownIdCall("removeMask"))
          => (lastOp'.result = "NotFound" /\ CacheUntouched)]_vars

\* C7, amended. With an unknown id setActiveMask reports the not-found error and
\* removeMask returns normally without reporting anything; neither changes the
\* cache, writes a lastUsed, destroys a texture or calls the detector.
C7_UnknownIdNoChange ==
    [][/\ UnknownIdCall("setActiveMask")
            => (lastOp'.result = "NotFound" /\ CacheUntouched)
       /\ UnknownIdCall("removeMask")
            => (lastOp'.result = "undefined" /\ CacheUntouched)]_vars

\* removeMask was called with an unknown id while the cache held masks, an
\* active id and a detector call in flight
C7_Witness ==
    /\ lastOp.op = "removeMask"
    /\ ~lastOp.known
    /\ Len(masks) > 0
    /\ activeMaskId # NoId
    /\ \E i \in Ids : pending[i] > 0

\* C8. Memoization: the landmark computation calls the detector at most once
\* for any one mask.
C8_DetectorCalledOnce == \A i \in Ids : estimateCalls[i] <= 1

OldestLive(m) == IF Len(m) > 0 THEN m[1].id ELSE NoId

\* C10. removeMask(id) on a live id destroys the mask's texture and removes id
\* from entries and from insertionOrder; activeId moves to the oldest-inserted
\* live entry (none if no entry is left) if id was active and is unchanged
\* otherwise.
C10_RemoveMask ==
    [][(Called("removeMask") /\ lastOp'.known)
          => \E id \in MaskIds(masks) :
                /\ MaskIds(masks') = MaskIds(masks) \ {id}
                /\ id \notin QueueIds(maskQueue')
                /\ lastOp'.destroyCalls = 1
                /\ activeMaskId' = (IF activeMaskId = id THEN OldestLive(masks')
                                    ELSE activeMaskId)]_vars

\* C11. destroy() destroys the texture of every live entry and leaves entries
\* and insertionOrder empty and activeId unset; a destroy() that directly follows
\* a destroy() on the emptied cache changes nothing.
C11_DestroyClears ==
    [][Called("destroy")
          => /\ masks' = <<>> /\ maskQueue' = <<>> /\ activeMaskId' = NoId
             /\ lastOp'.destroyCalls = Len(masks)
             /\ (lastOp.op = "destroy" /\ Len(masks) = 0)
                   => UNCHANGED <<masks, maskQueue, activeMaskId, bindGroupLayout,
                                  textureCache, destroyedTex>>]_vars

\* loadDefaultMasks has returned or raised
ChainFinished == chain.pc \in {"returned", "raised"}

\* C12. Resilience chain, per source: every entry of the default-mask list is
\* attempted at most MAX_RETRIES times, never again after an attempt on it
\* succeeded, never twice in a row without the retry delay, and when the chain
\* has finished every entry was attempted until it succeeded or failed
\* MAX_RETRIES times.
C12_ChainPerSource ==
    /\ \A j \in DefaultMasks : chain.calls[j] <= MAX_RETRIES
    /\ ~chain.again
    /\ ~chain.hasty
    /\ ChainFinished =>
          \A j \in DefaultMasks : j \in chain.okSrc \/ chain.calls[j] = MAX_RETRIES

\* every entry of the list failed on each of its MAX_RETRIES attempts
AllRetriesFailed ==
    \A j \in DefaultMasks : chain.calls[j] = MAX_RETRIES /\ j \notin chain.okSrc

\* C13. Retry/fallback: when every entry failed on all of its MAX_RETRIES
\* attempts, the chain ends by returning, with a mask "fallback" in the cache
\* that is the active one.
C13_FallbackAfterRetries ==
    (ChainFinished /\ AllRetriesFailed)
        => /\ chain.pc = "returned"
           /\ chain.fallbackOk
           /\ HasMask(masks, FallbackId)
           /\ activeMaskId = FallbackId

\* C14. The chain always terminates: a started run returns or raises, after at
\* most NumDefaultMasks * MAX_RETRIES attempts on listed entries and at most one
\* fallback attempt.
C14_ChainTerminates ==
    /\ [](/\ SumOver(chain.calls, DefaultMasks) <= NumDefaultMasks * MAX_RETRIES
          /\ chain.fallbackCalls <= 1)
    /\ <>ChainFinished

\* a run that used every attempt it has: each entry failed MAX_RETRIES times
C14_Witness ==
    /\ ChainFinished
    /\ chain.draft = "retry"
    /\ SumOver(chain.calls, DefaultMasks) = NumDefaultMasks * MAX_RETRIES

\* C15. Initialization gate: an init run that scheduled the first render tick
\* completed GPU initialization, detector creation, video readiness and mask
\* loading and got a mask from getActiveMask(); a run in which a step failed
\* scheduled no tick.
C15_InitGate ==
    /\ initRun.scheduled => InitSteps \subseteq initRun.ok
    /\ initRun.failed => ~initRun.scheduled

\* an init run went through every step and started the render loop
C15_Witness ==
    /\ initRun.pc = "ended"
    /\ initRun.scheduled
    /\ Len(loops) > 0

\* C16. When a step of init fails, the call of init ends by raising to its
\* caller (page load or recoveryVideo) instead of returning normally.
C16_InitFailureSurfaced ==
    (initRun.pc = "ended" /\ initRun.failed) => initRun.outcome = "raised"

\* C17. Readiness gate: a tick that begins while video, mask, model or renderer
\* is not ready does not call the detector, does not increment the frame
\* counter, issues no render and schedules exactly one next tick.
C17_NotReadyNoWork ==
    (lastTick.step = "start" /\ ~lastTick.ready)
        => /\ ~lastTick.detector
           /\ ~lastTick.counted
           /\ ~lastTick.render
           /\ lastTick.next = 1

\* C18. Detection failure is skip-frame: the step of a tick in which the
\* detector call fails still issues a render.
C18_RenderAfterDetectionFailure ==
    (lastTick.step = "detected" /\ lastTick.failed) => lastTick.render

\* the loop has a callback scheduled or a tick in progress
LoopAlive(t) == t.sched \/ t.detecting \/ t.rendering

\* C19. Steady-state errors never end the loop: every loop always has a tick
\* scheduled or in progress, and whenever the detector call of a tick has come
\* back (with a face, without, or failing) the loop gets its next tick
\* scheduled.
C19_LoopNeverEnds ==
    /\ [](\A l \in 1..Len(loops) : LoopAlive(loops[l]))
    /\ \A l \in 1..(MaxRecoveries + 1) :
          (lastTick.loop = l /\ lastTick.step = "detected")
              ~> (l <= Len(loops) /\ loops[l].sched)

\* a detector call failed and the loop has its next tick scheduled
C19_Witness ==
    /\ lastTick.step = "detected"
    /\ lastTick.failed
    /\ loops[lastTick.loop].sched

\* C20. Within one tick the render call is issued only once the detector call
\* has completed or failed: no tick has its detection and its render in flight
\* together.
C20_DetectBeforeRender ==
    \A l \in 1..Len(loops) : ~(loops[l].detecting /\ loops[l].rendering)

\* a tick whose detection came back with a face has its render in flight
C20_Witness ==
    /\ lastTick.step = "detected"
    /\ lastTick.render
    /\ loops[lastTick.loop].rendering

\* a tick of the loop is between its detector call and the end of its render
TickInProgress(t) == t.detecting \/ t.rendering

\* C21. Ticks are strictly sequential: at most one render loop is alive and at
\* no time are the ticks of two loops in progress together.
C21_TicksSequential ==
    \A l1, l2 \in 1..Len(loops) :
        /\ (LoopAlive(loops[l1]) /\ LoopAlive(loops[l2])) => l1 = l2
        /\ (TickInProgress(loops[l1]) /\ TickInProgress(loops[l2])) => l1 = l2

\* C22. GPU destruction discipline: the texture, sampler and bind group of the
\* mask that a tick got from getActiveMask() and passed to a render still in
\* flight are not destroyed, whether by eviction, removeMask, the destroy of
\* the cache or the destroy of the device.
C22_HeldMaskNotDestroyed ==
    [][\A l \in 1..Len(loops) :
          (loops[l].rendering /\ loops[l].maskAlive /\ loops'[l].rendering)
              => loops'[l].maskAlive]_vars

\* a tick holds a live mask in a render not yet completed while a dropped file
\* is loading
C22_Witness ==
    /\ page.drop.pc = "loading"
    /\ \E l \in 1..Len(loops) :
          loops[l].rendering /\ loops[l].maskAlive /\ loops[l].mask # NoId

\* the tick in flight called the detector before the latest recoveryVideo
StaleTick(t) == TickInProgress(t) /\ t.started < initRun.runs

\* C23. Stale-epoch cancellation: recoveryVideo does not begin while a tick is
\* in progress; a detection started before a recovery is not rendered once
\* the new init has begun; a file drop whose addMask was started on the
\* previous cache changes nothing in the cache of the new run.
C23_StaleResultsDiscarded ==
    [][/\ initRun'.runs > initRun.runs
            => \A l \in 1..Len(loops) : ~TickInProgress(loops[l])
       /\ \A l \in 1..Len(loops) :
            (StaleTick(loops[l]) /\ loops[l].detecting) => ~loops'[l].rendering
       /\ (page.drop.stale /\ page'.drop # page.drop)
            => UNCHANGED <<masks, maskQueue, activeMaskId>>]_vars

\* recoveryVideo has run its cleanup and entered init
RecoveryBegins == initRun'.caller = "recovery" /\ initRun'.runs > initRun.runs

\* C24. On a visibility resume the teardown is complete before init is
\* entered again: the camera is released, the GPU device is destroyed and the
\* mask cache is destroyed, no entry and no cache state left.
C24_FullTeardown ==
    [][RecoveryBegins
          => /\ globals'.video # "ready"
             /\ globals'.device # "live"
             /\ masks' = <<>>
             /\ maskQueue' = <<>>
             /\ activeMaskId' = NoId]_vars

\* C25. Recovery starts from scratch: when recoveryVideo enters init the
\* previous smoothed landmarks and the frame counter are reset, and the first
\* prediction processed after a recovery comes out of the smoothing as the
\* live detection itself.
C25_RecoveryFromScratch ==
    [][/\ RecoveryBegins => (page'.lastPrediction = NoPose /\ frameCounter' = 0)
       /\ (page.fresh /\ ~page'.fresh)
            => page'.lastPrediction = lastTick'.live]_vars

\* C26. Shutdown is terminal: once the cleanup of the unload event has run,
\* the camera tracks, the GPU device and the cache entries are released, and
\* no tick calls the detector or renders afterwards.
C26_ShutdownTerminal ==
    /\ [](page.unloaded
            => /\ globals.video # "ready"
               /\ globals.device # "live"
               /\ Len(masks) = 0)
    /\ [][page.unloaded => UNCHANGED <<loops, lastTick>>]_vars

\* device.destroy() is called on the live device
DeviceDestroyed == globals.device = "live" /\ globals'.device = "destroyed"

\* C27. No mask outlives its GPU context: when the device is destroyed the
\* cache built on it holds no entry, and nothing is done on the context
\* afterwards: no render is issued on a destroyed device and no mask is stored
\* in a cache whose device is destroyed.
C27_MasksWithinContext ==
    [][/\ (DeviceDestroyed /\ globals.cacheDevice = "live") => Len(masks) = 0
       /\ \A l \in 1..Len(loops) :
            (l <= Len(loops') /\ ~loops[l].rendering /\ loops'[l].rendering)
                => globals.device = "live"
       /\ (Called("addMask") /\ lastOp'.result = "ok" /\ added' > added)
            => globals'.cacheDevice = "live"]_vars

\* lerp(a, b, t) for t of 0 or 1
Lerp(a, b, t) == IF t = 0 THEN a ELSE b

\* C28. Morph correctness: the position the vertex stage produces for vertex i
\* is lerp(live[i], reference[i], morphFactor): with morphFactor 0 it is the
\* live landmark i, with morphFactor 1 the reference landmark i.
C28_MorphCorrect ==
    frame.step = "drawn"
        => /\ Len(frame.out) = Len(frame.live)
           /\ \A i \in 1..Len(frame.live) :
                 frame.out[i] = Lerp(frame.live[i], frame.ref[i], MorphUniform)

\* C29. A length mismatch is an error: createVertexData returns a buffer only
\* when the reference landmarks are there and as many as the live ones.
C29_MismatchRejected ==
    frame.step \in {"built", "drawn"}
        => (frame.hasRef /\ Len(frame.ref) = Len(frame.live))

\* C30. loadImage does not recover by itself: when the fetch, the HTTP status
\* or the decoding fails, the call ends in an error for its caller; it makes
\* no second fetch and answers no substitute texture.
C30_LoadFailsToCaller ==
    lastOp.op = "loadImage"
        => /\ lastOp.fetches <= 1
           /\ (lastOp.pc = "done" /\ lastOp.failures # {}) => lastOp.result = "error"

\* C31. addMask failure is rolled back: when addMask fails on the bind group
\* after its texture was loaded, it has destroyed that texture before the error
\* reaches the caller, and masks, maskQueue and activeMaskId are as before the
\* call.
C31_AddMaskRollback ==
    [][(Called("addMask") /\ lastOp'.result = "BindError")
          => /\ lastOp'.destroyCalls = 1
             /\ UNCHANGED <<masks, maskQueue, activeMaskId>>]_vars

\* the step begins a tick of loop l that finds everything ready
ReadyTickStart(l) == TickStart(l) /\ lastTick'.ready

\* C32. Detection cadence: for every rate of 15..60 the interval
\* round(60 / rate) is a whole number of 1..4; a ready tick increments the
\* frame counter once, by its end; a ready tick calls the detector exactly when
\* frameCounter mod the interval is 0; and with an interval above 1 two ready
\* ticks that begin one after the other do not both call the detector.
C32_DetectionCadence ==
    /\ [](DetectEvery \in 1..4)
    /\ [](/\ (lastTick.step # "none" /\ lastTick.ready /\ lastTick.next = 1)
               => lastTick.counted
          /\ lastTick.counted => lastTick.next = 1)
    /\ [][\A l \in 1..Len(loops) :
            ReadyTickStart(l)
                => /\ lastTick'.detector <=> (frameCounter % DetectEvery = 0)
                   /\ (/\ DetectEvery > 1
                       /\ lastTick.step = "start"
                       /\ lastTick.ready
                       /\ lastTick.detector) => ~lastTick'.detector]_vars

\* the step is a detection that came back with a face
FaceDetected == \E l \in 1..Len(loops), p \in Poses : TickDetected(l, "face", p)

\* live * (1 - factor) + previous * factor, the factor counted in halves
Blend(live, previous, factor) == (live * (2 - factor) + previous * factor) \div 2

\* the step smooths the detection against the carried prediction: the first
\* detection comes out unchanged, a later one blended with the carried
\* output, and the output becomes the carried prediction
SmoothedStep ==
    /\ lastTick'.processed =
          IF page.lastPrediction = NoPose THEN lastTick'.live
          ELSE Blend(lastTick'.live, page.lastPrediction, page.smoothingFactor)
    /\ page'.lastPrediction = lastTick'.processed
    /\ page.smoothingFactor = 0 => lastTick'.processed = lastTick'.live

\* C33 as stated. Temporal smoothing: on each successful detection the output
\* is live * (1 - factor) + previousSmoothed * factor, the first detection
\* comes out unchanged, the output is carried to the next detection, and with
\* factor 0 the output is the live detection.
C33_SmoothingOnEveryDetection == [][FaceDetected => SmoothedStep]_vars

\* C33, amended. The same on each successful detection made while
\* enableSmoothing is on, the carried prediction being the output of the last
\* detection smoothed; while enableSmoothing is off the output is the live
\* detection and the carried prediction is left as it is.
C33_SmoothingWhenEnabled ==
    [][FaceDetected
          => IF page.enableSmoothing THEN SmoothedStep
             ELSE /\ lastTick'.processed = lastTick'.live
                  /\ page'.lastPrediction = page.lastPrediction]_vars

\* a detection came out of the smoothing different from the live one
C33_Witness ==
    /\ lastTick.step = "detected"
    /\ page.enableSmoothing
    /\ lastTick.live # NoPose
    /\ lastTick.processed # lastTick.live
    /\ page.lastPrediction = lastTick.processed

\* the nine floats of record i of the buffer, read at the declared stride
RecordAt(data, i) ==
    [k \in 1..FloatsWritten |-> data[FloatsPerVertex * (i - 1) + k]]

\* C34. Vertex buffer layout: the buffer built for n live landmarks holds n
\* records of the declared stride of 10 floats, and record i, read at
\* i * stride, holds live[i] at floats 0..2, the uv at 3..4, reference[i] at
\* 5..7 and the vertex alpha at 8.
C34_VertexLayout ==
    frame.step \in {"built", "drawn"}
        => /\ Len(frame.data) = FloatsPerVertex * Len(frame.live)
           /\ \A i \in 1..Len(frame.live) :
                 RecordAt(frame.data, i) = VertexFloats(frame.live[i], frame.ref[i])

\* C35. The insertion-order queue mirrors the entries: maskQueue holds the ids
\* of the live entries and no other id, each exactly once.
C35_QueueMirrorsEntries ==
    /\ QueueIds(maskQueue) = MaskIds(masks)
    /\ Len(maskQueue) = Len(masks)

\* the mask holds a texture on which destroy() was called
HoldsDestroyedTexture(mask) == mask.tex # OwnTex /\ mask.tex \in destroyedTex

\* C36. No live entry holds a destroyed texture: the destroy() of eviction and
\* removeMask never hits the texture of another live entry, and an addMask of
\* a url or an id seen before never stores a destroyed texture.
C36_NoDestroyedTextureLive ==
    \A i \in 1..Len(masks) : ~HoldsDestroyedTexture(masks[i])

\* C37. setActiveMask is all-or-nothing on an existing id: when
\* setActiveMask(id) of a live id raises, activeMaskId is what it was before
\* the call and the lastUsed of the mask was not written.
C37_SetActiveAllOrNothing ==
    [][(Called("setActiveMask") /\ lastOp'.known /\ lastOp'.result = "Error")
          => /\ activeMaskId' = activeMaskId
             /\ ~lastOp'.touched]_vars

\* the step is the render call of the tick of loop l
RenderIssued(l) == l <= Len(loops') /\ ~loops[l].rendering /\ loops'[l].rendering

\* C38. Every render is issued with a mask whose reference landmarks have been
\* computed: the active mask a tick hands to render has its landmarks set,
\* however it became the active one.
C38_RenderWithLandmarks ==
    [][\A l \in 1..Len(loops) :
          RenderIssued(l)
              => /\ HasMask(masks, loops'[l].mask)
                 /\ GetMask(masks, loops'[l].mask).landmarks]_vars

\* exactly one of: the callback of the loop is scheduled, its tick awaits the
\* detector, its tick awaits the render
OneTick(t) ==
    /\ t.sched \/ t.detecting \/ t.rendering
    /\ ~(t.sched /\ (t.detecting \/ t.rendering))
    /\ ~(t.detecting /\ t.rendering)

\* a step of the tick of loop l: its start, the return of its detector call or
\* the return of its render
TickStep(l) ==
    \/ TickStart(l)
    \/ \E d \in Detections(Poses) : TickDetected(l, d[1], d[2])
    \/ TickRendered(l)

\* C39. Every invocation of the tick function schedules exactly one next tick
\* on every path: each loop has at every time either its callback scheduled or
\* one tick in progress, never both; a step of a tick that stops at an await
\* requests no frame and the step that ends the tick (not ready, no detection
\* this tick, detection without render or failing, render come back or thrown)
\* requests exactly one, and no step touches another loop or the number of
\* loops.
C39_OneNextTickPerTick ==
    /\ [](\A l \in 1..Len(loops) : OneTick(loops[l]))
    /\ [][\A l \in 1..Len(loops) :
            TickStep(l)
                => /\ lastTick'.loop = l
                   /\ lastTick'.next = (IF loops'[l].sched THEN 1 ELSE 0)
                   /\ Len(loops') = Len(loops)
                   /\ \A k \in 1..Len(loops) : k # l => loops'[k] = loops[k]]_vars

\* a tick that went through detection and render has ended and its loop, the
\* only one, has its next tick scheduled
C39_Witness ==
    /\ Len(loops) = 1
    /\ lastTick.step = "rendered"
    /\ lastTick.next = 1
    /\ loops[1].sched
    /\ ~TickInProgress(loops[1])
====
